---- MODULE Spec2Model ----
(***************************************************************************)
(* BookAlchemy (src/app.py, src/data_models.py): the catalog store         *)
(* (authors, books, the delete cascade) and the Open Library summary       *)
(* resolver, as a state machine.                                           *)
(*                                                                         *)
(* A text is a sequence of one-character strings, so that strip, replace,  *)
(* int() and LIKE are computed character by character as the code does.    *)
(***************************************************************************)
EXTENDS Integers, Sequences, FiniteSets, TLC

VARIABLES
    authors,    \* committed rows of table authors
    books,      \* committed rows of table books
    tx,         \* the session's view of the two tables inside a transaction
    pc,         \* where the running delete_book request stands ("idle": none)
    cur,        \* locals of the running delete_book request
    last,       \* the request handled by the last step, and what it answered
    before,     \* history: the committed tables when that request arrived
    rIsbn,      \* resolver run: the identifier handed to fetch_summary_by_isbn
    rNet,       \* resolver run: what the two Open Library requests would answer
    rOut        \* resolver run: what fetch_summary_by_isbn did

vars == <<authors, books, tx, pc, cur, last, before, rIsbn, rNet, rOut>>

(***************************************************************************)
(* Bounds of the model.                                                    *)
(***************************************************************************)
MaxAuthors == 2
MaxBooks == 2
MaxId == 2
CurrentYear == 1

(***************************************************************************)
(* Texts.                                                                  *)
(***************************************************************************)
Empty == << >>

\* Python str.strip() with no argument, on the characters the model uses.
RECURSIVE lstrip(_)
lstrip(s) ==
    IF s # Empty /\ Head(s) = " " THEN lstrip(Tail(s)) ELSE s

RECURSIVE rstrip(_)
rstrip(s) ==
    IF s # Empty /\ s[Len(s)] = " " THEN rstrip(SubSeq(s, 1, Len(s) - 1)) ELSE s

strip(s) == rstrip(lstrip(s))

\* Python s.replace(ch, ""): every occurrence of the character removed.
RECURSIVE replace(_, _)
replace(s, ch) ==
    IF s = Empty THEN Empty
    ELSE IF Head(s) = ch THEN replace(Tail(s), ch)
    ELSE <<Head(s)>> \o replace(Tail(s), ch)

\* normalize_isbn, src/app.py:52-56.
normalize_isbn(isbn) == strip(replace(replace(isbn, "-"), " "))

(***************************************************************************)
(* JSON values, as requests' r.json() hands them to the resolver.          *)
(* An object is a record f of members; a member that is JAbsent is a key   *)
(* the object does not have.                                               *)
(***************************************************************************)
JAbsent == [t |-> "absent"]
JNull == [t |-> "null"]
JStr(s) == [t |-> "str", s |-> s]
JNum(n) == [t |-> "num", n |-> n]
JList(items) == [t |-> "list", items |-> items]
JObj(f) == [t |-> "obj", f |-> f]

\* Python's `key in d`.
HasKey(d, k) == k \in DOMAIN d.f /\ d.f[k].t # "absent"

\* Python's d.get(key): None when the key is missing.
Get(d, k) == IF HasKey(d, k) THEN d.f[k] ELSE JNull

\* Python truthiness of a JSON value.
Truthy(j) ==
    CASE j.t = "null" -> FALSE
      [] j.t = "str"  -> j.s # Empty
      [] j.t = "num"  -> j.n # 0
      [] j.t = "list" -> j.items # << >>
      [] j.t = "obj"  -> \E k \in DOMAIN j.f : j.f[k].t # "absent"
      [] OTHER -> FALSE

(***************************************************************************)
(* The summary resolver.  A call ends in one of                            *)
(*   [res |-> "text", text |-> s]   a str was returned                     *)
(*   [res |-> "none"]               None was returned                      *)
(*   [res |-> "raise"]              an exception left the function         *)
(***************************************************************************)
RText(s) == [res |-> "text", text |-> s]
RNone == [res |-> "none", text |-> Empty]
RRaise == [res |-> "raise", text |-> Empty]

\* extract_summary, src/app.py:58-81.  data.get on a value that is no dict
\* and .strip() on a value that is no str raise AttributeError.
extract_summary(data) ==
    IF data.t # "obj" THEN RRaise
    ELSE LET desc == Get(data, "description") IN
         IF desc.t = "str"
            THEN IF strip(desc.s) # Empty THEN RText(strip(desc.s)) ELSE RNone
         ELSE IF desc.t = "obj"
            THEN LET v == Get(desc, "value") IN
                 IF ~Truthy(v) THEN RNone
                 ELSE IF v.t # "str" THEN RRaise
                 ELSE IF strip(v.s) # Empty THEN RText(strip(v.s)) ELSE RNone
         ELSE RNone

\* What one SESSION.get(url, timeout=8) followed by r.json() can do.
RespOk(body) == [rk |-> "ok", body |-> body]
RespFail(kind) == [rk |-> kind, body |-> JNull]
FailKinds == {"neterr", "timeout", "status", "badjson"}

\* src/app.py:112: works and isinstance(works, list) and
\* isinstance(works[0], dict) and "key" in works[0].
HasWorkKey(works) ==
    /\ Truthy(works)
    /\ works.t = "list"
    /\ works.items[1].t = "obj"
    /\ HasKey(works.items[1], "key")

\* The work fallback, src/app.py:111-125, after the edition gave no summary.
work_fallback(edition, workResp) ==
    LET works == IF Truthy(Get(edition, "works")) THEN Get(edition, "works")
                 ELSE JList(<< >>) IN
    IF HasWorkKey(works)
       THEN IF workResp.rk # "ok"
               THEN [out |-> RNone, reqs |-> <<"edition", "work">>]
               ELSE [out |-> extract_summary(workResp.body),
                     reqs |-> <<"edition", "work">>]
       ELSE [out |-> RNone, reqs |-> <<"edition">>]

\* fetch_summary_by_isbn, src/app.py:83-125.  net.edition and net.work are
\* what the two requests answer if they are issued; reqs lists the requests
\* the call issued, in order.
fetch_summary_by_isbn(isbn, net) ==
    IF normalize_isbn(isbn) = Empty THEN [out |-> RNone, reqs |-> << >>]
    ELSE IF net.edition.rk # "ok" THEN [out |-> RNone, reqs |-> <<"edition">>]
    ELSE LET edition == net.edition.body
             summary == extract_summary(edition) IN
         IF summary.res = "raise" THEN [out |-> RRaise, reqs |-> <<"edition">>]
         ELSE IF summary.res = "text" THEN [out |-> summary, reqs |-> <<"edition">>]
         ELSE work_fallback(edition, net.work)

(***************************************************************************)
(* More of Python and SQLite on texts.                                     *)
(***************************************************************************)
Digits == <<"0", "1", "2", "3", "4", "5", "6", "7", "8", "9">>

IsDigit(c) == \E i \in 1..Len(Digits) : Digits[i] = c

DigitVal(c) == (CHOOSE i \in 1..Len(Digits) : Digits[i] = c) - 1

\* The decimal text of n, for 0 <= n <= 99.
DecimalText(n) ==
    IF n < 10 THEN <<Digits[n + 1]>>
    ELSE <<Digits[(n \div 10) + 1], Digits[(n % 10) + 1]>>

RECURSIVE DigitsValue(_, _)
DigitsValue(s, acc) ==
    IF s = Empty THEN acc ELSE DigitsValue(Tail(s), 10 * acc + DigitVal(Head(s)))

AllDigits(s) == s # Empty /\ \A i \in 1..Len(s) : IsDigit(s[i])

\* Python int(text), src/app.py:232-233: surrounding blanks, one optional
\* sign, decimal digits; anything else is a ValueError (ok = FALSE).  The
\* texts of the model hold no underscore between digits.
int(text) ==
    LET s == strip(text)
        signed == s # Empty /\ Head(s) \in {"-", "+"}
        body == IF signed THEN Tail(s) ELSE s IN
    IF ~AllDigits(body) THEN [ok |-> FALSE, n |-> 0]
    ELSE [ok |-> TRUE,
          n |-> IF signed /\ Head(s) = "-" THEN 0 - DigitsValue(body, 0)
                ELSE DigitsValue(body, 0)]

\* SQLite lower(): ASCII letters only.
lowerChar(c) ==
    CASE c = "A" -> "a"
      [] c = "B" -> "b"
      [] OTHER -> c

lower(s) == [i \in 1..Len(s) |-> lowerChar(s[i])]

\* SQLite LIKE with no ESCAPE clause: % is any run of characters, _ is any
\* one character, every other character is itself.
RECURSIVE Like(_, _)
Like(s, pat) ==
    IF pat = Empty THEN s = Empty
    ELSE IF Head(pat) = "%"
        THEN Like(s, Tail(pat)) \/ (s # Empty /\ Like(Tail(s), pat))
    ELSE /\ s # Empty
         /\ (Head(pat) = "_" \/ Head(pat) = Head(s))
         /\ Like(Tail(s), Tail(pat))

\* Column.ilike(pattern) as SQLAlchemy renders it for SQLite:
\* lower(column) LIKE lower(pattern).  src/app.py:151.
ilike(column, pattern) == Like(lower(column), lower(pattern))

\* ASCII codes of the model's characters: SQLite orders TEXT bytewise.
Code(c) ==
    CASE c = " " -> 32
      [] c = "%" -> 37
      [] c = "+" -> 43
      [] c = "-" -> 45
      [] IsDigit(c) -> 48 + DigitVal(c)
      [] c = "A" -> 65
      [] c = "B" -> 66
      [] c = "_" -> 95
      [] c = "a" -> 97
      [] c = "b" -> 98
      [] OTHER -> 120

\* s <= t in SQLite's BINARY collation.
RECURSIVE TextLeq(_, _)
TextLeq(s, t) ==
    IF s = Empty THEN TRUE
    ELSE IF t = Empty THEN FALSE
    ELSE IF Head(s) # Head(t) THEN Code(Head(s)) < Code(Head(t))
    ELSE TextLeq(Tail(s), Tail(t))

\* parse_date, src/app.py:39-49.  strptime is modelled by the table of the
\* well-formed dates among the model's texts; any other non-blank text is a
\* ValueError (ok = FALSE).  date = Empty stands for None.
WellFormedDates == {<<"2", "0", "0", "1", "-", "0", "2", "-", "0", "3">>}

parse_date(date_str) ==
    LET s == strip(date_str) IN
    IF s = Empty THEN [ok |-> TRUE, date |-> Empty]
    ELSE IF s \in WellFormedDates THEN [ok |-> TRUE, date |-> s]
    ELSE [ok |-> FALSE, date |-> Empty]

(***************************************************************************)
(* The catalog store: SQLite through Flask-SQLAlchemy.                     *)
(* An author row is [id, name, birth_date, date_of_death], a book row is   *)
(* [id, isbn, title, publication_year, summary, author_id]                 *)
(* (src/data_models.py).  summary is what the resolver returned: RNone or  *)
(* RText(s).                                                               *)
(***************************************************************************)
Max(S) == CHOOSE m \in S : \A x \in S : x <= m

\* The id of a new row: the table's id is INTEGER PRIMARY KEY, which SQLite
\* fills with the largest rowid in the table plus one (the table is not
\* created with the AUTOINCREMENT keyword).
NextId(rows) == IF rows = {} THEN 1 ELSE Max({r.id : r \in rows}) + 1

\* Query.get: the row with this primary key, as a set of zero or one rows.
get(rows, id) == {r \in rows : r.id = id}

\* get_or_404 answers 404 when the row is missing.
get_or_404(rows, id) == IF get(rows, id) = {} THEN "notfound" ELSE "ok"

\* The app opens sqlite:///data/library.sqlite and sets no
\* PRAGMA foreign_keys, so SQLite checks no foreign key.
ForeignKeysEnforced == FALSE

\* The commit of a new book row raises IntegrityError: books.isbn is UNIQUE
\* (src/data_models.py:35); the foreign key counts only when enforced.
IntegrityError(new_book, bookRows, authorRows) ==
    \/ \E b \in bookRows : b.isbn = new_book.isbn
    \/ ForeignKeysEnforced /\ get(authorRows, new_book.author_id) = {}

\* A cascade that deletes nothing: the relationship without its cascade.
CascadeBooks_none(bookRows, author_id) == bookRows

\* Author.books with cascade="all, delete-orphan": deleting an author
\* deletes the books whose author_id is the author's id.
CascadeBooks(bookRows, author_id) == {b \in bookRows : b.author_id # author_id}

NoArgs == << >>
NoRows == << >>
NoReqs == << >>

Answer(op, outcome, args, id, reqs, rows) ==
    [op |-> op, outcome |-> outcome, args |-> args, id |-> id,
     reqs |-> reqs, rows |-> rows]

NoAnswer == Answer("none", "ok", NoArgs, 0, NoReqs, NoRows)

\* No request is being handled and the last response has been sent.
Idle == pc = "idle" /\ last = NoAnswer

NoCur == [book |-> 0, author |-> 0, remaining |-> 0, del_author |-> FALSE]

UnchangedResolver == UNCHANGED <<rIsbn, rNet, rOut>>

UnchangedStore == UNCHANGED <<authors, books, tx, pc, cur>>

Committed == [authors |-> authors, books |-> books]

NoTables == [authors |-> {}, books |-> {}]

(***************************************************************************)
(* add_author, src/app.py:167-200 (POST).                                  *)
(***************************************************************************)
AddAuthorResult(name_raw, birth_raw, death_raw) ==
    LET name == strip(name_raw)
        birth_date_str == strip(birth_raw)
        date_of_death_str == strip(death_raw)
        birth_date == parse_date(birth_date_str)
        date_of_death == parse_date(date_of_death_str) IN
    IF name = Empty \/ birth_date_str = Empty
       THEN [outcome |-> "validation", authors |-> authors]
    ELSE IF ~birth_date.ok \/ ~date_of_death.ok
       THEN [outcome |-> "error", authors |-> authors]
    ELSE [outcome |-> "ok",
          authors |-> authors \cup
              {[id |-> NextId(authors), name |-> name,
                birth_date |-> birth_date.date,
                date_of_death |-> date_of_death.date]}]

add_author(name_raw, birth_raw, death_raw) ==
    LET res == AddAuthorResult(name_raw, birth_raw, death_raw) IN
    /\ Idle
    /\ res.outcome = "ok" =>
          Cardinality(authors) < MaxAuthors /\ NextId(authors) <= MaxId
    /\ authors' = res.authors
    /\ tx' = [tx EXCEPT !.authors = res.authors]
    /\ last' = Answer("add_author", res.outcome,
                      <<name_raw, birth_raw, death_raw>>, 0, NoReqs, NoRows)
    /\ before' = Committed
    /\ UNCHANGED <<books, pc, cur>>
    /\ UnchangedResolver

(***************************************************************************)
(* add_book, src/app.py:203-261 (POST).                                    *)
(***************************************************************************)
\* The range check with the upper bound off by one.
YearOutOfRange_exclusive(publication_year, current_year) ==
    publication_year < 0 \/ publication_year >= current_year

\* src/app.py:239.
YearOutOfRange(publication_year, current_year) ==
    publication_year < 0 \/ publication_year > current_year

AddBookResult(title_raw, isbn_raw, year_raw, author_raw, net) ==
    LET title == strip(title_raw)
        isbn == strip(isbn_raw)
        publication_year_str == strip(year_raw)
        author_id_str == strip(author_raw)
        publication_year == int(publication_year_str)
        author_id == int(author_id_str)
        fetched == fetch_summary_by_isbn(isbn, net)
        new_book == [id |-> NextId(books), isbn |-> isbn, title |-> title,
                     publication_year |-> publication_year.n,
                     summary |-> fetched.out, author_id |-> author_id.n] IN
    IF title = Empty \/ isbn = Empty \/ publication_year_str = Empty
          \/ author_id_str = Empty
       THEN [outcome |-> "validation", books |-> books, reqs |-> NoReqs]
    ELSE IF ~publication_year.ok \/ ~author_id.ok
       THEN [outcome |-> "validation", books |-> books, reqs |-> NoReqs]
    ELSE IF YearOutOfRange(publication_year.n, CurrentYear)
       THEN [outcome |-> "validation", books |-> books, reqs |-> NoReqs]
    ELSE IF fetched.out.res = "raise"
       THEN [outcome |-> "error", books |-> books, reqs |-> fetched.reqs]
    ELSE IF IntegrityError(new_book, books, authors)
       THEN [outcome |-> "duplicate", books |-> books, reqs |-> fetched.reqs]
    ELSE [outcome |-> "ok", books |-> books \cup {new_book},
          reqs |-> fetched.reqs]

add_book(title_raw, isbn_raw, year_raw, author_raw, net) ==
    LET res == AddBookResult(title_raw, isbn_raw, year_raw, author_raw, net) IN
    /\ Idle
    /\ res.outcome = "ok" =>
          Cardinality(books) < MaxBooks /\ NextId(books) <= MaxId
    /\ books' = res.books
    /\ tx' = [tx EXCEPT !.books = res.books]
    /\ last' = Answer("add_book", res.outcome,
                      <<title_raw, isbn_raw, year_raw, author_raw>>, 0,
                      res.reqs, NoRows)
    /\ before' = Committed
    /\ UNCHANGED <<authors, pc, cur>>
    /\ UnchangedResolver

(***************************************************************************)
(* delete_book, src/app.py:272-290.  The handler runs in three steps, so   *)
(* that the process can stop between them: the rows are deleted in the     *)
(* session's transaction (tx) and reach the tables only at the commit.     *)
(***************************************************************************)
\* A commit where the flush is: the book's removal reaches the table at once.
AfterFlush_commit(book) ==
    [books |-> books \ {book}, tx |-> [tx EXCEPT !.books = books \ {book}]]

\* Lines 281-282: session.delete(book), session.flush().  The row is gone
\* inside the transaction; the committed table still holds it.
AfterFlush(book) ==
    [books |-> books, tx |-> [tx EXCEPT !.books = books \ {book}]]

\* Lines 278-282: get_or_404, author = book.author, session.delete(book),
\* session.flush().
delete_book_flush(book_id) ==
    /\ Idle
    /\ IF get(books, book_id) = {}
          THEN /\ last' = Answer("delete_book", "notfound", NoArgs, book_id,
                                 NoReqs, NoRows)
               /\ UNCHANGED <<books, tx, pc, cur>>
          ELSE LET book == CHOOSE b \in get(books, book_id) : TRUE
                   author == get(authors, book.author_id) IN
               /\ books' = AfterFlush(book).books
               /\ tx' = AfterFlush(book).tx
               /\ pc' = "flushed"
               /\ cur' = [NoCur EXCEPT
                            !.book = book.id,
                            !.author = IF author = {} THEN 0 ELSE book.author_id]
               /\ last' = Answer("delete_book", "pending", NoArgs, book_id,
                                 NoReqs, NoRows)
    /\ before' = Committed
    /\ UNCHANGED authors
    /\ UnchangedResolver

\* The count taken on the committed table: the deletion not flushed.
RemainingBooks_unflushed(author_id) ==
    Cardinality({b \in books : b.author_id = author_id})

\* Line 284: Book.query.filter_by(author_id=author.id).count(), inside the
\* transaction.
RemainingBooks(author_id) ==
    Cardinality({b \in tx.books : b.author_id = author_id})

\* Lines 284-285.  author is None for a book whose author_id names no
\* author row: author.id raises AttributeError and the request ends with
\* the transaction rolled back.
delete_book_count ==
    /\ pc = "flushed"
    /\ IF cur.author = 0
          THEN /\ tx' = Committed
               /\ pc' = "idle"
               /\ cur' = NoCur
               /\ last' = Answer("delete_book", "error", NoArgs, cur.book,
                                 NoReqs, NoRows)
          ELSE LET remaining == RemainingBooks(cur.author) IN
               /\ tx' = IF remaining = 0
                           THEN [authors |-> tx.authors \ get(tx.authors, cur.author),
                                 books |-> CascadeBooks(tx.books, cur.author)]
                           ELSE tx
               /\ pc' = "counted"
               /\ cur' = [cur EXCEPT !.remaining = remaining,
                                     !.del_author = (remaining = 0)]
               /\ last' = Answer("delete_book", "pending", NoArgs, cur.book,
                                 NoReqs, NoRows)
    /\ UNCHANGED <<authors, books, before>>
    /\ UnchangedResolver

\* Line 287: session.commit().
delete_book_commit ==
    /\ pc = "counted"
    /\ authors' = tx.authors
    /\ books' = tx.books
    /\ pc' = "idle"
    /\ cur' = NoCur
    /\ last' = Answer("delete_book", "ok", NoArgs, cur.book, NoReqs, NoRows)
    /\ UNCHANGED <<tx, before>>
    /\ UnchangedResolver

\* The process stops, or the request fails, inside delete_book: SQLite
\* drops the uncommitted transaction.
Crash ==
    /\ pc # "idle"
    /\ tx' = Committed
    /\ pc' = "idle"
    /\ cur' = NoCur
    /\ last' = Answer("delete_book", "crashed", <<pc>>, cur.book, NoReqs, NoRows)
    /\ UNCHANGED <<authors, books, before>>
    /\ UnchangedResolver

(***************************************************************************)
(* delete_author, src/app.py:292-304.                                      *)
(***************************************************************************)
delete_author(author_id) ==
    /\ Idle
    /\ IF get(authors, author_id) = {}
          THEN /\ last' = Answer("delete_author", "notfound", NoArgs, author_id,
                                 NoReqs, NoRows)
               /\ UNCHANGED <<authors, books, tx>>
          ELSE /\ authors' = authors \ get(authors, author_id)
               /\ books' = CascadeBooks(books, author_id)
               /\ tx' = [authors |-> authors', books |-> books']
               /\ last' = Answer("delete_author", "ok", NoArgs, author_id,
                                 NoReqs, NoRows)
    /\ before' = Committed
    /\ UNCHANGED <<pc, cur>>
    /\ UnchangedResolver

(***************************************************************************)
(* home, src/app.py:135-164.                                               *)
(***************************************************************************)
SortAuthor == <<"a", "u", "t", "h", "o", "r">>
SortTitle == <<"t", "i", "t", "l", "e">>
SortPrice == <<"p", "r", "i", "c", "e">>

\* Book.query.join(Author): a book row paired with its author row.
Joined == {p \in books \X authors : p[1].author_id = p[2].id}

\* Lines 148-152: the filter on title or author name.
Matches(p, q) ==
    LET like == <<"%">> \o q \o <<"%">> IN
    ilike(p[1].title, like) \/ ilike(p[2].name, like)

HomeFilter(q) == IF q # Empty THEN {p \in Joined : Matches(p, q)} ELSE Joined

\* Lines 155-162: ORDER BY authors.name, books.title or ORDER BY
\* books.title.
OrderLeq(p1, p2, sort_key) ==
    IF sort_key = SortAuthor
       THEN IF p1[2].name # p2[2].name THEN TextLeq(p1[2].name, p2[2].name)
            ELSE TextLeq(p1[1].title, p2[1].title)
       ELSE TextLeq(p1[1].title, p2[1].title)

\* The orders in which SQLite may return the rows: rows equal under the
\* ORDER BY come in either order.
Ordered(rows, sort_key) ==
    {s \in [1..Cardinality(rows) -> rows] :
        /\ \A i, j \in DOMAIN s : i # j => s[i] # s[j]
        /\ \A i, j \in DOMAIN s : i < j => OrderLeq(s[i], s[j], sort_key)}

home(q_raw, sort_raw) ==
    LET q == strip(q_raw)
        sort_key == strip(sort_raw) IN
    /\ Idle
    /\ \E s \in Ordered(HomeFilter(q), sort_key) :
          last' = Answer("home", "ok", <<q_raw, sort_raw>>, 0, NoReqs,
                         [i \in DOMAIN s |-> s[i][1].id])
    /\ before' = Committed
    /\ UnchangedStore
    /\ UnchangedResolver

(***************************************************************************)
(* The requests the model sends.                                           *)
(***************************************************************************)
Blank == <<" ">>

TitleTexts == {Blank, <<"A">>}

NameTexts == {Blank, <<"a">>, <<"B">>}

IsbnTexts == {Empty, <<"1", "2">>, <<"1", "-", "2">>, <<"-">>}

YearTexts ==
    {Empty, <<"x">>, <<"-", "1">>, DecimalText(0), DecimalText(CurrentYear),
     DecimalText(CurrentYear + 1)}

IdTexts == {Empty, <<"x">>} \cup {DecimalText(i) : i \in 1..MaxId}

DateTexts == {Empty, <<"x">>} \cup WellFormedDates

DeathTexts == {Empty, <<"x">>}

QueryTexts == {Empty, <<"a">>, <<"b">>, <<"_">>, <<"%">>}

SortTexts == {SortTitle, SortAuthor, SortPrice}

Ids == 1..MaxId

\* Open Library's answers while the store runs: an edition with a
\* description, and a body that is a JSON list.
Summary == <<"s">>

NoNet == [edition |-> RespFail("neterr"), work |-> RespFail("neterr")]

StoreNets ==
    {[edition |-> RespOk(JObj([description |-> JStr(Summary)])),
      work |-> RespFail("neterr")],
     [edition |-> RespOk(JList(<< >>)), work |-> RespFail("neterr")]}

NoOut == [done |-> FALSE, out |-> RNone, reqs |-> NoReqs]

Init ==
    /\ authors = {}
    /\ books = {}
    /\ tx = [authors |-> {}, books |-> {}]
    /\ pc = "idle"
    /\ cur = NoCur
    /\ last = NoAnswer
    /\ before = NoTables
    /\ rIsbn = Empty
    /\ rNet = NoNet
    /\ rOut = NoOut

AddAuthor ==
    \E name \in NameTexts, birth \in DateTexts, death \in DeathTexts :
        add_author(name, birth, death)

AddBook ==
    \E title \in TitleTexts, isbn \in IsbnTexts, year \in YearTexts,
       author \in IdTexts, net \in StoreNets :
        add_book(title, isbn, year, author, net)

DeleteBook == \E book_id \in Ids : delete_book_flush(book_id)

DeleteAuthor == \E author_id \in Ids : delete_author(author_id)

Home == \E q \in QueryTexts, sort \in SortTexts : home(q, sort)

\* The response has been sent: the application waits for the next request.
Respond ==
    /\ pc = "idle"
    /\ last # NoAnswer
    /\ last' = NoAnswer
    /\ before' = NoTables
    /\ UnchangedStore
    /\ UnchangedResolver

Next ==
    \/ Respond
    \/ AddAuthor
    \/ AddBook
    \/ DeleteBook
    \/ delete_book_count
    \/ delete_book_commit
    \/ Crash
    \/ DeleteAuthor
    \/ Home

Spec == Init /\ [][Next]_vars

(***************************************************************************)
(* The resolver on its own: one call of fetch_summary_by_isbn for every    *)
(* identifier and every pair of Open Library answers below.                *)
(***************************************************************************)
WorkKey == <<"w">>

\* description.value
ValueVals ==
    {JAbsent, JNull, JStr(Empty), JStr(Blank), JStr(Summary), JNum(0), JNum(5),
     JList(<< >>), JList(<<JNull>>), JObj([x |-> JNull])}

\* description
DescVals ==
    {JAbsent, JNull, JStr(Empty), JStr(Blank), JStr(<<" ">> \o Summary), JNum(5),
     JList(<< >>)} \cup {JObj([value |-> v]) : v \in ValueVals}

\* works
WorksVals ==
    {JAbsent, JNull, JList(<< >>), JStr(WorkKey), JNum(5),
     JObj([key |-> JStr(WorkKey)]),
     JList(<<JStr(WorkKey)>>),
     JList(<<JObj([title |-> JStr(WorkKey)])>>),
     JList(<<JObj([key |-> JNull])>>),
     JList(<<JObj([key |-> JStr(WorkKey)])>>)}

\* A body that parses to something other than an object.
NonObjects == {JNull, JNum(5), JStr(Summary), JList(<< >>)}

EditionBodies ==
    NonObjects \cup
    {JObj([description |-> d, works |-> w]) : d \in DescVals, w \in WorksVals}

WorkBodies ==
    NonObjects \cup {JObj([description |-> d]) : d \in DescVals}

Responses(bodies) ==
    {RespFail(k) : k \in FailKinds} \cup {RespOk(b) : b \in bodies}

ResolverNets ==
    {[edition |-> e, work |-> w] :
        e \in Responses(EditionBodies), w \in Responses(WorkBodies)}

InitResolver ==
    /\ authors = {}
    /\ books = {}
    /\ tx = [authors |-> {}, books |-> {}]
    /\ pc = "idle"
    /\ cur = NoCur
    /\ last = NoAnswer
    /\ before = NoTables
    /\ rIsbn \in IsbnTexts \cup {Blank}
    /\ rNet \in ResolverNets
    /\ rOut = NoOut

Resolve ==
    /\ ~rOut.done
    /\ LET r == fetch_summary_by_isbn(rIsbn, rNet) IN
       rOut' = [done |-> TRUE, out |-> r.out, reqs |-> r.reqs]
    /\ UNCHANGED <<rIsbn, rNet, last, before>>
    /\ UnchangedStore

NextResolver == Resolve

SpecResolver == InitResolver /\ [][NextResolver]_vars

(***************************************************************************)
(* The claims.  In an answered state `last` is the request just handled,   *)
(* `before` the committed tables when it arrived, and authors and books    *)
(* the committed tables after it.                                          *)
(***************************************************************************)
Range(s) == {s[i] : i \in DOMAIN s}

\* q occurs in s as a literal substring, letter case ignored.
Contains(s, q) ==
    \E i \in 1..(Len(s) - Len(q) + 1) :
        SubSeq(lower(s), i, i + Len(q) - 1) = lower(q)

IsBlank(s) == strip(s) = Empty

\* C1: after any sequence of requests every persisted book's author_id is
\* the id of an author present in the store; add_book with an author id
\* that names no author persists no book.
C1_ReferentialIntegrity ==
    \A b \in books : \E a \in authors : a.id = b.author_id

\* C2: add_book with an ISBN a stored book already holds, and otherwise
\* valid fields, ends in the duplicate-ISBN outcome and leaves the books
\* and the authors exactly as they were.
C2_DuplicateIsbnRejected ==
    (/\ last.op = "add_book"
     /\ ~IsBlank(last.args[1])
     /\ int(last.args[3]).ok
     /\ int(last.args[3]).n \in 0..CurrentYear
     /\ int(last.args[4]).ok
     /\ \E a \in before.authors : a.id = int(last.args[4]).n
     /\ \E b \in before.books : b.isbn = strip(last.args[2]))
    => /\ last.outcome = "duplicate"
       /\ books = before.books
       /\ authors = before.authors

\* The part of C2 the store decides: such a request never adds or changes
\* a row, and ends in the duplicate-ISBN outcome unless the resolver raised.
C2_DuplicateIsbnNeverPersisted ==
    (/\ last.op = "add_book"
     /\ \E b \in before.books : b.isbn = strip(last.args[2]))
    => /\ last.outcome # "ok"
       /\ books = before.books
       /\ authors = before.authors

\* C3: for a book B with author A, after delete_book(B): if B was A's only
\* book, B and A are both absent; if A owned two or more books, B is
\* absent, A is present and A's other books are present.
C3_DeleteBookOrphanRule ==
    last.op = "delete_book" =>
        \A B \in get(before.books, last.id) :
        \A A \in get(before.authors, B.author_id) :
            LET others == {b \in before.books : b.author_id = A.id /\ b # B} IN
            /\ last.outcome \in {"pending", "crashed", "ok"}
            /\ last.outcome = "ok" =>
                  /\ get(books, B.id) = {}
                  /\ IF others = {}
                        THEN get(authors, A.id) = {}
                        ELSE A \in authors /\ others \subseteq books

\* C3 happens: the only book of an author was deleted, and the author with it.
C3_Witness ==
    /\ last.op = "delete_book"
    /\ last.outcome = "ok"
    /\ \E B \in get(before.books, last.id) :
          /\ get(before.authors, B.author_id) # {}
          /\ {b \in before.books : b.author_id = B.author_id} = {B}
          /\ get(authors, B.author_id) = {}

\* C4: for an existing author A, after delete_author(A) the author is
\* absent, every book that referenced A is absent (a lookup of its id is
\* not found) and no book with author_id = A remains.
C4_DeleteAuthorCascade ==
    (last.op = "delete_author" /\ get(before.authors, last.id) # {}) =>
        /\ last.outcome = "ok"
        /\ get(authors, last.id) = {}
        /\ \A b \in before.books :
              b.author_id = last.id => get_or_404(books, b.id) = "notfound"
        /\ \A b \in books : b.author_id # last.id

\* C4 happens: an author who owned every book of a two-book store was deleted.
C4_Witness ==
    /\ last.op = "delete_author"
    /\ last.outcome = "ok"
    /\ Cardinality(before.books) = 2
    /\ \A b \in before.books : b.author_id = last.id

\* The extraction rule as C5 and C7 word it: the description a body
\* carries, plain or wrapped in {"value": ...}, is text that is non-empty
\* once trimmed; any other shape carries none.
DescriptionFound(body) ==
    /\ body.t = "obj"
    /\ LET d == Get(body, "description") IN
       \/ d.t = "str" /\ ~IsBlank(d.s)
       \/ /\ d.t = "obj"
          /\ Get(d, "value").t = "str"
          /\ ~IsBlank(Get(d, "value").s)

\* C5: fetch_summary_by_isbn never raises: for every identifier and every
\* behaviour of the two requests the call returns a non-empty text or None.
C5_ResolverNeverRaises ==
    rOut.done =>
        \/ rOut.out.res = "none"
        \/ rOut.out.res = "text" /\ rOut.out.text # Empty

\* C6: the ISBN stored on a book is the normalized identifier: no stored
\* ISBN holds a hyphen or a space, and no two stored books have ISBNs that
\* differ only in hyphens or spaces.
C6_StoredIsbnNormalized ==
    /\ \A b \in books : "-" \notin Range(b.isbn) /\ " " \notin Range(b.isbn)
    /\ \A b1, b2 \in books :
          normalize_isbn(b1.isbn) = normalize_isbn(b2.isbn) => b1 = b2

\* C7: in one run of the resolver the work request is issued if and only
\* if the edition request succeeded with a parseable body, that body
\* carries no non-empty description, and its works list is non-empty with
\* a first element that is an object with a key; at most two requests are
\* issued, the edition request first, none is repeated, and none at all is
\* issued when the normalized identifier is empty.
C7_WorkRequestIff ==
    rOut.done =>
        LET edition == rNet.edition.body
            works == Get(edition, "works")
            expected ==
                /\ normalize_isbn(rIsbn) # Empty
                /\ rNet.edition.rk = "ok"
                /\ ~DescriptionFound(edition)
                /\ edition.t = "obj"
                /\ works.t = "list"
                /\ works.items # << >>
                /\ works.items[1].t = "obj"
                /\ HasKey(works.items[1], "key") IN
        /\ ("work" \in Range(rOut.reqs)) <=> expected
        /\ rOut.reqs \in {<< >>, <<"edition">>, <<"edition", "work">>}
        /\ normalize_isbn(rIsbn) = Empty => rOut.reqs = << >>

\* The part of C7 that does not rest on the extraction rule: the order
\* and the number of the requests.
C7_RequestOrder ==
    rOut.done =>
        /\ rOut.reqs \in {<< >>, <<"edition">>, <<"edition", "work">>}
        /\ normalize_isbn(rIsbn) = Empty => rOut.reqs = << >>
        /\ "work" \in Range(rOut.reqs) =>
              rNet.edition.rk = "ok" /\ ~DescriptionFound(rNet.edition.body)

\* C8: for a non-empty query q, also one holding % or _, home returns
\* exactly the books whose title, or whose author's name, contains q as a
\* literal substring, letter case ignored.  Stated for stores in which
\* every book has its author row, so that the join drops no book.
C8_LiteralSubstringSearch ==
    (/\ last.op = "home"
     /\ last.args[1] # Empty
     /\ \A b \in books : get(authors, b.author_id) # {})
    => Range(last.rows) =
          {b.id : b \in
              {b \in books :
                  \/ Contains(b.title, last.args[1])
                  \/ \E a \in get(authors, b.author_id) :
                        Contains(a.name, last.args[1])}}

\* The part of C8 the code keeps: a query without % and _ is matched as a
\* literal substring.
C8_PlainQuerySearch ==
    (/\ last.op = "home"
     /\ last.args[1] # Empty
     /\ "%" \notin Range(last.args[1])
     /\ "_" \notin Range(last.args[1])
     /\ \A b \in books : get(authors, b.author_id) # {})
    => Range(last.rows) =
          {b.id : b \in
              {b \in books :
                  \/ Contains(b.title, last.args[1])
                  \/ \E a \in get(authors, b.author_id) :
                        Contains(a.name, last.args[1])}}

\* C9: add_book ends in the validation outcome whenever a required field
\* is blank, the year or the author id is no integer, or the year lies
\* outside [0, current year]; then no book is persisted, the store is as
\* before and the resolver issued no request; a request with valid fields
\* and a year inside [0, current year] is not rejected by validation.
C9_Invalid(args) ==
    \/ \E i \in 1..4 : IsBlank(args[i])
    \/ ~int(args[3]).ok
    \/ ~int(args[4]).ok
    \/ int(args[3]).n < 0
    \/ int(args[3]).n > CurrentYear

C9_ValidationRejects ==
    last.op = "add_book" =>
        IF C9_Invalid(last.args)
           THEN /\ last.outcome = "validation"
                /\ books = before.books
                /\ authors = before.authors
                /\ last.reqs = << >>
           ELSE last.outcome # "validation"

\* C9 happens: a request whose only defect is the year after the current
\* one was rejected, against a store that holds a book.
C9_Witness ==
    /\ last.op = "add_book"
    /\ last.outcome = "validation"
    /\ last.args[3] = DecimalText(CurrentYear + 1)
    /\ ~IsBlank(last.args[1])
    /\ ~IsBlank(last.args[2])
    /\ int(last.args[4]).ok
    /\ books # {}

\* C10: delete_book deletes in one transaction with one commit: the book's
\* removal is flushed before the count, the count is the number of the
\* author's other books, the author is deleted only if it is zero, and the
\* committed tables are the ones before the request until the commit and
\* the final ones after it, whether or not the request is cut short.
C10_DeleteBookAtomic ==
    (last.op = "delete_book" /\ last.outcome # "notfound") =>
        \A B \in get(before.books, last.id) :
            LET others == {b \in before.books :
                              b.author_id = B.author_id /\ b # B}
                final == [books |-> before.books \ {B},
                          authors |-> IF others = {}
                                         THEN before.authors \
                                              get(before.authors, B.author_id)
                                         ELSE before.authors] IN
            /\ get(before.books, last.id) = {B}
            /\ Committed = IF last.outcome = "ok" THEN final ELSE before
            /\ pc = "flushed" => tx = [before EXCEPT !.books = before.books \ {B}]
            /\ pc = "counted" =>
                  /\ cur.remaining = Cardinality(others)
                  /\ cur.del_author = (others = {})
                  /\ tx = final

\* C10 happens: the request was cut short after the last book's author was
\* marked for deletion and before the commit; both rows are still there.
C10_Witness ==
    /\ last.op = "delete_book"
    /\ last.outcome = "crashed"
    /\ last.args = <<"counted">>
    /\ \E B \in get(books, last.id) :
          /\ get(authors, B.author_id) # {}
          /\ {b \in books : b.author_id = B.author_id} = {B}

====
